---- MODULE Spec2Model ----
(***************************************************************************)
(* Model of imageio/testing.py: the scratch-directory manager, the suite   *)
(* runner, the flake8 style checker with its stdout proxy, the per-file    *)
(* directive parser and the load-time patch of the pytest runner.          *)
(* Strings are sequences of one-character strings, so that startswith,     *)
(* endswith, `in`, split, strip, join and relpath are computed.            *)
(***************************************************************************)
EXTENDS Integers, Sequences, FiniteSets, TLC

\* ------------------------------------------------------------------------
\* Bounds of the model
\* ------------------------------------------------------------------------
MaxLoads == 3
MaxCalls == 3
MaxRuns == 2

\* ------------------------------------------------------------------------
\* Python string primitives
\* ------------------------------------------------------------------------
StartsWith(s, p) ==
    /\ Len(s) >= Len(p)
    /\ SubSeq(s, 1, Len(p)) = p

EndsWith(s, p) ==
    /\ Len(s) >= Len(p)
    /\ SubSeq(s, Len(s) - Len(p) + 1, Len(s)) = p

\* `sub in s` for strings
Contains(s, sub) ==
    \E i \in 1..(Len(s) - Len(sub) + 1) : SubSeq(s, i, i + Len(sub) - 1) = sub

RECURSIVE SplitAcc(_, _, _, _)
SplitAcc(s, sep, cur, acc) ==
    IF s = <<>> THEN Append(acc, cur)
    ELSE IF Head(s) = sep THEN SplitAcc(Tail(s), sep, <<>>, Append(acc, cur))
    ELSE SplitAcc(Tail(s), sep, Append(cur, Head(s)), acc)

\* s.split(sep) for a one-character separator
Split(s, sep) == SplitAcc(s, sep, <<>>, <<>>)

RECURSIVE Join(_, _)
\* sep.join(words)
Join(words, sep) ==
    IF words = <<>> THEN <<>>
    ELSE IF Len(words) = 1 THEN Head(words)
    ELSE Head(words) \o sep \o Join(Tail(words), sep)

\* ------------------------------------------------------------------------
\* Paths and names
\* ------------------------------------------------------------------------
SEP == "/"

ROOT_DIR == <<"/", "p">>

HOME_DIR == <<"/", "h">>

Dirs == {ROOT_DIR, HOME_DIR}

IMAGEIO == <<"i", "m", "a", "g", "e", "i", "o">>

IMAGEIO_TESTING == IMAGEIO \o <<".", "t", "e", "s", "t", "i", "n", "g">>

IMAGEIO_CORE == IMAGEIO \o <<".", "c", "o", "r", "e">>

PYTEST_RUNNER == <<"_", "p", "y", "t", "e", "s", "t", ".", "r", "u", "n", "n", "e", "r">>

\* os.path.join(appdata_dir('imageio'), 'testdir')
TestDirPath == <<"/", "a", "/", "t">>

\* None for a variable that holds a path
None == <<>>

\* attribute not set on the runner module
Unset == [kind |-> "unset", module |-> <<>>]

\* no exit code yet
NoCode == -1

\* ------------------------------------------------------------------------
\* State
\* ------------------------------------------------------------------------
VARIABLES
    proc_pc,           \* "running", "exiting", "exited"
    sys_modules,       \* keys of sys.modules
    cwd,               \* os.getcwd()
    the_test_dir,      \* _the_test_dir of the loaded module
    dir_state,         \* the scratch directory on disk: "absent", "nonempty", "empty"
    atexit_hooks,      \* number of atexit.register calls
    hooks_run,         \* exit hooks already run at exit
    created,           \* number of successful os.makedirs of the scratch directory
    removals,          \* number of successful rmtree by an exit hook
    get_log,           \* one record per returning get_test_dir() call
    runner_call,       \* runner.pytest_runtest_call
    runner_call_orig,  \* runner.pytest_runtest_call_orig
    loads,             \* executions of the module body
    hook_calls,        \* calls of the runner's own function in the last hook invocation
    unit_pc,           \* test_unit: "idle", "runner"
    unit_runs,         \* test_unit invocations
    orig_dir,          \* test_unit's local orig_dir
    entry_cwd,         \* working directory when test_unit was entered
    runner_code,       \* exit code the runner returned last
    unit_result,       \* how the last test_unit ended
    \* test_style and _test_style
    style_pc,          \* "idle", "walk" (in the os.walk loop), "flake8" (in main())
    style_runs,        \* test_style invocations
    sys_stdout,        \* sys.stdout: number of FileForTesting proxies around the original
    count,             \* test_style's local count
    fail,              \* test_style's local fail
    walked,            \* files visited by the walk of this invocation
    cur_file,          \* index in SampleFiles of the file visited last, 0 if none
    cur_counted,       \* whether visiting cur_file incremented count
    sys_argv,          \* contents of the list object sys.argv names
    orig_argv,         \* _test_style's local orig_argv
    style_orig_dir,    \* _test_style's local orig_dir
    entry_argv,        \* contents of sys.argv when _test_style was entered
    entry_dir,         \* working directory when _test_style was entered
    run_argv,          \* contents of sys.argv when test_style was entered
    n_checked,         \* times flake8's main() was invoked in this invocation
    n_failed,          \* times it exited with a code other than None or 0
    style_outcome,     \* how the last test_style ended
    \* _get_style_test_options on its own
    opt_pc,            \* "input", "done"
    opt_lines,         \* lines of the file
    opt_extra,         \* a directive line and the line number it is put on
    opt_result,        \* (skip, ignores) for opt_lines
    opt_result_extra,  \* (skip, ignores) for the file with opt_extra inserted
    \* FileForTesting.write on its own
    w_msg,             \* argument of the last write call on the proxy
    proxy_writes,      \* write calls on the proxy
    sink_last,         \* argument of the last write call on the wrapped sink
    sink_writes,       \* write calls on the wrapped sink
    sink_flushes       \* flush calls on the wrapped sink

procVars == <<proc_pc, sys_modules, the_test_dir, dir_state, atexit_hooks,
              hooks_run, created, removals, get_log, runner_call,
              runner_call_orig, loads, hook_calls, unit_pc, unit_runs,
              orig_dir, entry_cwd, runner_code, unit_result>>

styleVars == <<style_pc, style_runs, sys_stdout, count, fail, walked, cur_file,
               cur_counted, sys_argv, orig_argv, style_orig_dir, entry_argv,
               entry_dir, run_argv, n_checked, n_failed, style_outcome>>

optsVars == <<opt_pc, opt_lines, opt_extra, opt_result, opt_result_extra>>

writeVars == <<w_msg, proxy_writes, sink_last, sink_writes, sink_flushes>>

otherThanProc == <<styleVars, optsVars, writeVars>>

vars == <<procVars, styleVars, optsVars, writeVars, cwd>>

\* ------------------------------------------------------------------------
\* RunnerPatch (module body, lines 227-245) and _clear_imageio
\* ------------------------------------------------------------------------
\* _pytest.runner's own pytest_runtest_call
RunnerOriginal == [kind |-> "original", module |-> PYTEST_RUNNER]

\* imageio.testing.pytest_runtest_call
pytest_runtest_call == [kind |-> "wrapper", module |-> IMAGEIO_TESTING]

ShouldPatchAlways(f) == TRUE

\* if not runner.pytest_runtest_call.__module__.startswith('imageio')
ShouldPatch(f) == ~StartsWith(f.module, IMAGEIO)

\* for key in list(sys.modules.keys()): if key.startswith('imageio'): del
ClearImageio(mods) == {k \in mods : ~StartsWith(k, IMAGEIO)}

RecursionLimit == 4

RECURSIVE CallsToOriginal(_, _, _)
\* Number of times the runner's own function runs when f is called with
\* runner.pytest_runtest_call_orig = orig; 0 when the wrapper chain never
\* reaches it (RecursionError).
CallsToOriginal(f, orig, depth) ==
    IF f.kind = "unset" THEN 0
    ELSE IF f.kind = "original" THEN 1
    ELSE IF depth = 0 THEN 0
    ELSE CallsToOriginal(orig, orig, depth - 1)

\* import imageio.testing: the module body runs when the module is not cached
ImportTesting ==
    /\ proc_pc = "running"
    /\ IMAGEIO_TESTING \notin sys_modules
    /\ loads < MaxLoads
    /\ loads' = loads + 1
    /\ sys_modules' = sys_modules \cup {IMAGEIO, IMAGEIO_TESTING}
    /\ the_test_dir' = None
    /\ IF ShouldPatch(runner_call)
       THEN /\ runner_call_orig' = runner_call
            /\ runner_call' = pytest_runtest_call
       ELSE UNCHANGED <<runner_call, runner_call_orig>>
    /\ UNCHANGED <<proc_pc, cwd, dir_state, atexit_hooks, hooks_run, created,
                   removals, get_log, hook_calls, unit_pc, unit_runs, orig_dir,
                   entry_cwd, runner_code, unit_result>>
    /\ UNCHANGED otherThanProc

\* the runner calls runner.pytest_runtest_call(item) for a test
InvokeHook ==
    /\ proc_pc = "running"
    /\ unit_pc = "runner"
    /\ hook_calls' = CallsToOriginal(runner_call, runner_call_orig, RecursionLimit)
    /\ UNCHANGED <<proc_pc, sys_modules, cwd, the_test_dir, dir_state,
                   atexit_hooks, hooks_run, created, removals, get_log,
                   runner_call, runner_call_orig, loads, unit_pc, unit_runs,
                   orig_dir, entry_cwd, runner_code, unit_result>>
    /\ UNCHANGED otherThanProc

\* ------------------------------------------------------------------------
\* TestDirManager (get_test_dir, lines 52-67)
\* ------------------------------------------------------------------------
GetTestDirCached ==
    /\ proc_pc = "running"
    /\ IMAGEIO_TESTING \in sys_modules
    /\ Len(get_log) < MaxCalls
    /\ the_test_dir # None
    /\ get_log' = Append(get_log, [path |-> the_test_dir, dir |-> dir_state])
    /\ UNCHANGED <<proc_pc, sys_modules, cwd, the_test_dir, dir_state,
                   atexit_hooks, hooks_run, created, removals, runner_call,
                   runner_call_orig, loads, hook_calls, unit_pc, unit_runs,
                   orig_dir, entry_cwd, runner_code, unit_result>>
    /\ UNCHANGED otherThanProc

\* first call of a module instance; rm_ok, mk_ok: whether shutil.rmtree and
\* os.makedirs succeed
GetTestDirFirst(rm_ok, mk_ok) ==
    /\ proc_pc = "running"
    /\ IMAGEIO_TESTING \in sys_modules
    /\ Len(get_log) < MaxCalls
    /\ the_test_dir = None
    /\ sys_modules' = sys_modules \cup {IMAGEIO_CORE}
    /\ the_test_dir' = TestDirPath
    /\ IF dir_state # "absent" /\ ~rm_ok
       THEN \* shutil.rmtree raises
            UNCHANGED <<dir_state, created, atexit_hooks, get_log>>
       ELSE IF ~mk_ok
       THEN \* os.makedirs raises
            /\ dir_state' = "absent"
            /\ UNCHANGED <<created, atexit_hooks, get_log>>
       ELSE /\ dir_state' = "empty"
            /\ created' = created + 1
            /\ atexit_hooks' = atexit_hooks + 1
            /\ get_log' = Append(get_log, [path |-> TestDirPath, dir |-> "empty"])
    /\ UNCHANGED <<proc_pc, cwd, hooks_run, removals, runner_call,
                   runner_call_orig, loads, hook_calls, unit_pc, unit_runs,
                   orig_dir, entry_cwd, runner_code, unit_result>>
    /\ UNCHANGED otherThanProc

GetTestDir ==
    \/ GetTestDirCached
    \/ \E rm_ok \in BOOLEAN, mk_ok \in BOOLEAN : GetTestDirFirst(rm_ok, mk_ok)

\* a test writes a file into the scratch directory it obtained
WriteTestFile ==
    /\ proc_pc = "running"
    /\ unit_pc = "runner"
    /\ the_test_dir # None
    /\ dir_state = "empty"
    /\ dir_state' = "nonempty"
    /\ UNCHANGED <<proc_pc, sys_modules, cwd, the_test_dir, atexit_hooks,
                   hooks_run, created, removals, get_log, runner_call,
                   runner_call_orig, loads, hook_calls, unit_pc, unit_runs,
                   orig_dir, entry_cwd, runner_code, unit_result>>
    /\ UNCHANGED otherThanProc

\* ------------------------------------------------------------------------
\* SuiteRunner (test_unit, lines 72-83)
\* ------------------------------------------------------------------------
RestoreDirSkipped(saved, current) == current

\* finally: os.chdir(orig_dir)
RestoreDir(saved, current) == saved

ExitCodes == {0, 1, 2}

\* return pytest.main(...)
ReturnCode(code) == code

TestUnitEnter ==
    /\ proc_pc = "running"
    /\ unit_pc = "idle"
    /\ IMAGEIO_TESTING \in sys_modules
    /\ unit_runs < MaxRuns
    /\ unit_runs' = unit_runs + 1
    /\ orig_dir' = cwd
    /\ entry_cwd' = cwd
    /\ cwd' = ROOT_DIR
    /\ sys_modules' = ClearImageio(sys_modules)
    /\ unit_pc' = "runner"
    /\ unit_result' = [kind |-> "running"]
    /\ UNCHANGED <<proc_pc, the_test_dir, dir_state, atexit_hooks, hooks_run,
                   created, removals, get_log, runner_call, runner_call_orig,
                   loads, hook_calls, runner_code>>
    /\ UNCHANGED otherThanProc

RunnerReturns(code) ==
    /\ proc_pc = "running"
    /\ unit_pc = "runner"
    /\ runner_code' = code
    /\ unit_result' = [kind |-> "returned", code |-> ReturnCode(code)]
    /\ cwd' = RestoreDir(orig_dir, cwd)
    /\ unit_pc' = "idle"
    /\ UNCHANGED <<proc_pc, sys_modules, the_test_dir, dir_state, atexit_hooks,
                   hooks_run, created, removals, get_log, runner_call,
                   runner_call_orig, loads, hook_calls, unit_runs, orig_dir,
                   entry_cwd>>
    /\ UNCHANGED otherThanProc

RunnerRaises ==
    /\ proc_pc = "running"
    /\ unit_pc = "runner"
    /\ unit_result' = [kind |-> "raised"]
    /\ cwd' = RestoreDir(orig_dir, cwd)
    /\ unit_pc' = "idle"
    /\ UNCHANGED <<proc_pc, sys_modules, the_test_dir, dir_state, atexit_hooks,
                   hooks_run, created, removals, get_log, runner_call,
                   runner_call_orig, loads, hook_calls, unit_runs, orig_dir,
                   entry_cwd, runner_code>>
    /\ UNCHANGED otherThanProc

\* the calling script changes directory between operations
Chdir(d) ==
    /\ proc_pc = "running"
    /\ unit_pc = "idle"
    /\ cwd # d
    /\ cwd' = d
    /\ UNCHANGED procVars
    /\ UNCHANGED otherThanProc

\* ------------------------------------------------------------------------
\* Normal process exit: the atexit hooks run
\* ------------------------------------------------------------------------
ProcessExit ==
    /\ proc_pc = "running"
    /\ unit_pc = "idle"
    /\ proc_pc' = "exiting"
    /\ UNCHANGED <<sys_modules, cwd, the_test_dir, dir_state, atexit_hooks,
                   hooks_run, created, removals, get_log, runner_call,
                   runner_call_orig, loads, hook_calls, unit_pc, unit_runs,
                   orig_dir, entry_cwd, runner_code, unit_result>>
    /\ UNCHANGED otherThanProc

\* lambda x=None: shutil.rmtree(_the_test_dir); an error is reported and ignored
RunExitHook(rm_ok) ==
    /\ proc_pc = "exiting"
    /\ hooks_run < atexit_hooks
    /\ hooks_run' = hooks_run + 1
    /\ IF dir_state # "absent" /\ rm_ok
       THEN /\ dir_state' = "absent"
            /\ removals' = removals + 1
       ELSE UNCHANGED <<dir_state, removals>>
    /\ UNCHANGED <<proc_pc, sys_modules, cwd, the_test_dir, atexit_hooks,
                   created, get_log, runner_call, runner_call_orig, loads,
                   hook_calls, unit_pc, unit_runs, orig_dir, entry_cwd,
                   runner_code, unit_result>>
    /\ UNCHANGED otherThanProc

ExitDone ==
    /\ proc_pc = "exiting"
    /\ hooks_run = atexit_hooks
    /\ proc_pc' = "exited"
    /\ UNCHANGED <<sys_modules, cwd, the_test_dir, dir_state, atexit_hooks,
                   hooks_run, created, removals, get_log, runner_call,
                   runner_call_orig, loads, hook_calls, unit_pc, unit_runs,
                   orig_dir, entry_cwd, runner_code, unit_result>>
    /\ UNCHANGED otherThanProc

\* ------------------------------------------------------------------------
\* _get_style_test_options (lines 178-197)
\* ------------------------------------------------------------------------
MARKER == <<"#", " ", "s", "t", "y", "l", "e", "t", "e", "s", "t", ":">>

SKIP == <<"s", "k", "i", "p">>

IGNORE == <<"i", "g", "n", "o", "r", "e">>

Whitespace == {" ", "\t"}

Digits == {"0", "1", "2", "3", "4", "5", "6", "7", "8", "9"}

CodeLetters == {"E", "W", "F", "C", "N"}

RECURSIVE LStrip(_)
LStrip(w) == IF w # <<>> /\ Head(w) \in Whitespace THEN LStrip(Tail(w)) ELSE w

RECURSIVE RStrip(_)
RStrip(w) ==
    IF w # <<>> /\ w[Len(w)] \in Whitespace
    THEN RStrip(SubSeq(w, 1, Len(w) - 1))
    ELSE w

\* w.strip()
Strip(w) == RStrip(LStrip(w))

\* line.replace(',', ' ')
ReplaceCommas(line) == [i \in 1..Len(line) |-> IF line[i] = "," THEN " " ELSE line[i]]

\* s.isnumeric()
IsNumeric(s) == s # <<>> /\ \A i \in 1..Len(s) : s[i] \in Digits

\* w[1:].isnumeric() and w[0] in 'EWFCN'
IsCode(w) == IsNumeric(Tail(w)) /\ Head(w) \in CodeLetters

RECURSIVE CodeWords(_)
\* the two list comprehensions of lines 193-195 over the split words
CodeWords(words) ==
    IF words = <<>> THEN <<>>
    ELSE IF Strip(Head(words)) # <<>> /\ IsCode(Strip(Head(words)))
    THEN <<Strip(Head(words))>> \o CodeWords(Tail(words))
    ELSE CodeWords(Tail(words))

\* words of an ignore directive (lines 192-195)
IgnoreWords(line) == CodeWords(Split(ReplaceCommas(line), " "))

ScanLineIgnoreResetsSkip(opts, line) ==
    IF StartsWith(line, MARKER)
    THEN IF Contains(line, SKIP) /\ ~Contains(line, IGNORE)
         THEN [skip |-> TRUE, ignores |-> opts.ignores]
         ELSE IF Contains(line, IGNORE)
         THEN [skip |-> FALSE, ignores |-> opts.ignores \o IgnoreWords(line)]
         ELSE opts
    ELSE opts

\* body of the loop for one line (lines 188-196)
ScanLine(opts, line) ==
    IF StartsWith(line, MARKER)
    THEN IF Contains(line, SKIP)
         THEN [skip |-> TRUE, ignores |-> opts.ignores]
         ELSE IF Contains(line, IGNORE)
         THEN [skip |-> opts.skip, ignores |-> opts.ignores \o IgnoreWords(line)]
         ELSE opts
    ELSE opts

\* if i > 20: break
ScanBreak == 20

RECURSIVE ScanLines(_, _, _)
\* for i, line in enumerate(text.splitlines()), from index i on
ScanLines(lines, i, opts) ==
    IF i >= Len(lines) \/ i > ScanBreak THEN opts
    ELSE ScanLines(lines, i + 1, ScanLine(opts, lines[i + 1]))

get_style_test_options(lines) ==
    ScanLines(lines, 0, [skip |-> FALSE, ignores |-> <<>>])

\* ------------------------------------------------------------------------
\* Source files met by the walk
\* ------------------------------------------------------------------------
PlainLine == <<"x", " ", "=", " ", "1">>

SkipLine == MARKER \o <<" ">> \o SKIP

IgnoreLine == MARKER \o <<" ">> \o IGNORE \o <<" ", "E", "5", "0", "1", ",", "W", "1">>

BadIgnoreLine == MARKER \o <<" ">> \o IGNORE \o <<" ", "X", "1", "2", ",", "E", ",", "E", "1", "a">>

IndentedSkipLine == <<" ">> \o SkipLine

SkipWordLine == SKIP \o <<" ", "=", " ", "1">>

\* n lines, plain except at the positions (1-based) of the function special
FileLines(n, special) ==
    [i \in 1..n |-> IF i \in DOMAIN special THEN special[i] ELSE PlainLine]

PY == <<".", "p", "y">>

A_PY == <<"a", ".", "p", "y">>

B_PY == <<"b", ".", "p", "y">>

A_TXT == <<"a", ".", "t", "x", "t">>

DOT == <<".">>

DOCS == <<"d", "o", "c", "s">>

exclude_dirs == {<<".", "g", "i", "t">>, DOCS, <<"b", "u", "i", "l", "d">>,
                 <<"d", "i", "s", "t">>,
                 <<"_", "_", "p", "y", "c", "a", "c", "h", "e", "_", "_">>}

SRC_BUILD == <<"s", "/", "b", "u", "i", "l", "d">>

SourceFile(dir, fname, readable, lines) ==
    [dir |-> dir, fname |-> fname, readable |-> readable, lines |-> lines]

\* dir is the directory relative to ROOT_DIR (line 107)
SampleFiles == <<
    SourceFile(DOT, A_PY, TRUE, FileLines(3, <<>>)),
    SourceFile(DOT, B_PY, TRUE, FileLines(3, 2 :> IgnoreLine)),
    SourceFile(DOT, A_PY, TRUE, FileLines(3, 1 :> SkipLine)),
    SourceFile(DOT, A_PY, TRUE, FileLines(3, (1 :> IgnoreLine) @@ (3 :> SkipLine))),
    SourceFile(DOT, A_PY, TRUE, FileLines(3, (1 :> SkipLine) @@ (3 :> IgnoreLine))),
    SourceFile(DOT, A_PY, TRUE, FileLines(ScanBreak + 2, (ScanBreak + 1) :> SkipLine)),
    SourceFile(DOT, A_PY, TRUE, FileLines(ScanBreak + 2, (ScanBreak + 2) :> SkipLine)),
    SourceFile(DOT, A_PY, TRUE, FileLines(3, (1 :> IndentedSkipLine) @@ (2 :> SkipWordLine)
                                              @@ (3 :> BadIgnoreLine))),
    SourceFile(DOT, A_PY, FALSE, <<>>),
    SourceFile(DOT, A_TXT, TRUE, FileLines(1, 1 :> SkipLine)),
    SourceFile(DOCS, A_PY, TRUE, FileLines(1, <<>>)),
    SourceFile(SRC_BUILD, A_PY, TRUE, FileLines(1, <<>>)) >>

\* ------------------------------------------------------------------------
\* StyleChecker (test_style, lines 86-135; _test_style, lines 200-222)
\* ------------------------------------------------------------------------
MaxStyleRuns == 2
MaxFiles == 3

\* ignores = ['E226', 'E241', 'E265', 'W291', 'W293']
ignores == << <<"E", "2", "2", "6">>, <<"E", "2", "4", "1">>, <<"E", "2", "6", "5">>,
              <<"W", "2", "9", "1">>, <<"W", "2", "9", "3">> >>

IGNORE_OPT == <<"-", "-", "i", "g", "n", "o", "r", "e", "=">>

\* exclude_dirs.intersection(dir.split(os.path.sep))
DirExcluded(dir) == \E c \in exclude_dirs : \E i \in 1..Len(Split(dir, SEP)) : Split(dir, SEP)[i] = c

\* os.path.join(ROOT_DIR, dir, fname)
FileName(f) == ROOT_DIR \o <<SEP>> \o f.dir \o <<SEP>> \o f.fname

\* codes the tool can exit with: SystemExit(), SystemExit(0), SystemExit(1), SystemExit('msg')
ToolExitCodes == {"None", "0", "1", "msg"}

\* how main() can end without another exception: it returns, or exits with a code
ToolOutcomes == {"returns"} \cup ToolExitCodes

ThisFailNoneFails(outcome) == outcome \notin {"returns", "0"}

\* value of _test_style (lines 212-219): None when main() returns, else
\* ex.code not in (None, 0), taken as a truth value
ThisFail(outcome) == outcome \notin {"returns", "None", "0"}

\* sys.argv[1:] = [filename]; sys.argv.append('--ignore=' + ignore)
ArgvForFile(argv, filename, ignore) ==
    SubSeq(argv, 1, 1) \o <<filename>> \o <<IGNORE_OPT \o Join(ignore, <<",">>)>>

\* the list object a name is bound to: orig_argv = sys.argv binds the same
\* object as sys.argv; contents of that object are the variable sys_argv
ArgvObject == "sys.argv"

\* contents of the list object ref, given the contents of the sys.argv object
ListContents(ref, argv_now) == IF ref = ArgvObject THEN argv_now ELSE <<>>

\* sys.stdout = FileForTesting(sys.stdout)
WrapStdout(out) == out + 1

\* FileForTesting.revert: sys.stdout = self._original
Revert(out) == out - 1

\* '... (checked %i files)' % count
ReportCount(cnt) == cnt

\* lines 130-135
Report(cnt, failed) ==
    IF cnt = 0 THEN [kind |-> "error", text |-> "did not check any files", n |-> 0]
    ELSE IF failed THEN [kind |-> "error", text |-> "failed", n |-> ReportCount(cnt)]
    ELSE [kind |-> "returned", text |-> "passed", n |-> ReportCount(cnt)]

\* an exception other than the final RuntimeError leaves test_style
Propagated == [kind |-> "propagated", text |-> "", n |-> 0]

styleRest == <<optsVars, writeVars, procVars>>

\* flake8 is not installed: print a notice and return
TestStyleNoFlake8 ==
    /\ style_pc = "idle"
    /\ style_runs < MaxStyleRuns
    /\ style_runs' = style_runs + 1
    /\ style_outcome' = [kind |-> "returned", text |-> "skipping", n |-> 0]
    /\ UNCHANGED <<style_pc, sys_stdout, count, fail, walked, cur_file,
                   cur_counted, sys_argv, orig_argv, style_orig_dir, entry_argv,
                   entry_dir, run_argv, n_checked, n_failed, cwd>>
    /\ UNCHANGED styleRest

\* lines 96-103
TestStyleStart ==
    /\ style_pc = "idle"
    /\ style_runs < MaxStyleRuns
    /\ style_runs' = style_runs + 1
    /\ sys_stdout' = WrapStdout(sys_stdout)
    /\ fail' = FALSE
    /\ count' = 0
    /\ walked' = 0
    /\ cur_file' = 0
    /\ cur_counted' = FALSE
    /\ n_checked' = 0
    /\ n_failed' = 0
    /\ run_argv' = sys_argv
    /\ style_outcome' = [kind |-> "running", text |-> "", n |-> 0]
    /\ style_pc' = "walk"
    /\ UNCHANGED <<sys_argv, orig_argv, style_orig_dir, entry_argv, entry_dir, cwd>>
    /\ UNCHANGED styleRest

\* the walk meets a file that is not checked: excluded directory, not a .py
\* file, or a file with a skip directive
WalkPass(k) ==
    /\ style_pc = "walk"
    /\ walked < MaxFiles
    /\ LET f == SampleFiles[k] IN
       \/ DirExcluded(f.dir)
       \/ ~EndsWith(f.fname, PY)
       \/ /\ f.readable
          /\ get_style_test_options(f.lines).skip
    /\ walked' = walked + 1
    /\ cur_file' = k
    /\ cur_counted' = FALSE
    /\ UNCHANGED <<style_pc, style_runs, sys_stdout, count, fail, sys_argv,
                   orig_argv, style_orig_dir, entry_argv, entry_dir, run_argv,
                   n_checked, n_failed, style_outcome, cwd>>
    /\ UNCHANGED styleRest

\* open(filename, 'rb').read().decode('utf-8') raises
WalkReadError(k) ==
    /\ style_pc = "walk"
    /\ walked < MaxFiles
    /\ LET f == SampleFiles[k] IN
       /\ ~DirExcluded(f.dir)
       /\ EndsWith(f.fname, PY)
       /\ ~f.readable
    /\ walked' = walked + 1
    /\ cur_file' = k
    /\ cur_counted' = FALSE
    /\ style_outcome' = Propagated
    /\ style_pc' = "idle"
    /\ UNCHANGED <<style_runs, sys_stdout, count, fail, sys_argv, orig_argv,
                   style_orig_dir, entry_argv, entry_dir, run_argv, n_checked,
                   n_failed, cwd>>
    /\ UNCHANGED styleRest

\* lines 121-122 and 203-214: count the file and enter flake8's main()
WalkCheck(k) ==
    /\ style_pc = "walk"
    /\ walked < MaxFiles
    /\ LET f == SampleFiles[k]
           opts == get_style_test_options(f.lines)
       IN  /\ ~DirExcluded(f.dir)
           /\ EndsWith(f.fname, PY)
           /\ f.readable
           /\ ~opts.skip
           /\ sys_argv' = ArgvForFile(sys_argv, FileName(f), ignores \o opts.ignores)
    /\ walked' = walked + 1
    /\ cur_file' = k
    /\ cur_counted' = TRUE
    /\ count' = count + 1
    /\ n_checked' = n_checked + 1
    /\ style_orig_dir' = cwd
    /\ orig_argv' = ArgvObject
    /\ entry_argv' = sys_argv
    /\ entry_dir' = cwd
    /\ cwd' = ROOT_DIR
    /\ style_pc' = "flake8"
    /\ UNCHANGED <<style_runs, sys_stdout, fail, run_argv, n_failed, style_outcome>>
    /\ UNCHANGED styleRest

\* main() returns or raises SystemExit(code); finally restores; lines 123-126
Flake8Exits(code) ==
    /\ style_pc = "flake8"
    /\ fail' = (fail \/ ThisFail(code))
    /\ n_failed' = n_failed + (IF code \in ToolExitCodes \ {"None", "0"} THEN 1 ELSE 0)
    /\ cwd' = style_orig_dir
    /\ sys_argv' = ListContents(orig_argv, sys_argv)
    /\ style_pc' = "walk"
    /\ UNCHANGED <<style_runs, sys_stdout, count, walked, cur_file, cur_counted,
                   orig_argv, style_orig_dir, entry_argv, entry_dir, run_argv,
                   n_checked, style_outcome>>
    /\ UNCHANGED styleRest

\* main() raises an exception that is not SystemExit: finally restores and
\* the exception leaves _test_style and test_style
Flake8Raises ==
    /\ style_pc = "flake8"
    /\ cwd' = style_orig_dir
    /\ sys_argv' = ListContents(orig_argv, sys_argv)
    /\ style_outcome' = Propagated
    /\ style_pc' = "idle"
    /\ UNCHANGED <<style_runs, sys_stdout, count, fail, walked, cur_file,
                   cur_counted, orig_argv, style_orig_dir, entry_argv, entry_dir,
                   run_argv, n_checked, n_failed>>
    /\ UNCHANGED styleRest

\* the walk is over: lines 128-135
WalkDone ==
    /\ style_pc = "walk"
    /\ sys_stdout' = Revert(sys_stdout)
    /\ style_outcome' = Report(count, fail)
    /\ style_pc' = "idle"
    /\ UNCHANGED <<style_runs, count, fail, walked, cur_file, cur_counted,
                   sys_argv, orig_argv, style_orig_dir, entry_argv, entry_dir,
                   run_argv, n_checked, n_failed, cwd>>
    /\ UNCHANGED styleRest

PROG == <<"m", "a", "k", "e">>

InitialArgvs == { <<PROG>>, <<PROG, <<"t", "e", "s", "t">>, <<"s", "t", "y", "l", "e">> >> }

StyleInert ==
    /\ style_pc = "idle"
    /\ style_runs = 0
    /\ sys_stdout = 0
    /\ count = 0
    /\ fail = FALSE
    /\ walked = 0
    /\ cur_file = 0
    /\ cur_counted = FALSE
    /\ orig_argv = "unbound"
    /\ style_orig_dir = None
    /\ entry_argv = <<>>
    /\ entry_dir = None
    /\ run_argv = <<>>
    /\ n_checked = 0
    /\ n_failed = 0
    /\ style_outcome = [kind |-> "none", text |-> "", n |-> 0]

OptsInert ==
    /\ opt_pc = "input"
    /\ opt_lines = <<>>
    /\ opt_extra = [pos |-> 0, line |-> <<>>]
    /\ opt_result = [skip |-> FALSE, ignores |-> <<>>]
    /\ opt_result_extra = [skip |-> FALSE, ignores |-> <<>>]

WriteInert ==
    /\ w_msg = <<>>
    /\ proxy_writes = 0
    /\ sink_last = <<>>
    /\ sink_writes = 0
    /\ sink_flushes = 0

ProcInert ==
    /\ proc_pc = "running"
    /\ sys_modules = {PYTEST_RUNNER, IMAGEIO, IMAGEIO_TESTING}
    /\ the_test_dir = None
    /\ dir_state = "absent"
    /\ atexit_hooks = 0
    /\ hooks_run = 0
    /\ created = 0
    /\ removals = 0
    /\ get_log = <<>>
    /\ runner_call = pytest_runtest_call
    /\ runner_call_orig = RunnerOriginal
    /\ loads = 1
    /\ hook_calls = -1
    /\ unit_pc = "idle"
    /\ unit_runs = 0
    /\ orig_dir = None
    /\ entry_cwd = None
    /\ runner_code = NoCode
    /\ unit_result = [kind |-> "none"]

InitStyle ==
    /\ StyleInert
    /\ sys_argv \in InitialArgvs
    /\ cwd \in Dirs
    /\ ProcInert
    /\ OptsInert
    /\ WriteInert

NextStyle ==
    \/ TestStyleNoFlake8
    \/ TestStyleStart
    \/ \E k \in 1..Len(SampleFiles) : WalkPass(k)
    \/ \E k \in 1..Len(SampleFiles) : WalkReadError(k)
    \/ \E k \in 1..Len(SampleFiles) : WalkCheck(k)
    \/ \E code \in ToolOutcomes : Flake8Exits(code)
    \/ Flake8Raises
    \/ WalkDone

SpecStyle == InitStyle /\ [][NextStyle]_vars

\* ------------------------------------------------------------------------
\* Properties of the style checker
\* ------------------------------------------------------------------------
StyleEnded ==
    /\ style_pc = "idle"
    /\ style_outcome.kind \in {"error", "returned", "propagated"}
    /\ style_outcome.text # "skipping"

\* the three outcomes, decided by the tally of tool invocations and failures
OutcomeByTally ==
    /\ (n_checked = 0 =>
            /\ style_outcome.kind = "error"
            /\ style_outcome.text = "did not check any files")
    /\ (n_checked > 0 /\ n_failed > 0 =>
            /\ style_outcome.kind = "error"
            /\ style_outcome.text = "failed"
            /\ style_outcome.n = n_checked)
    /\ (n_checked > 0 /\ n_failed = 0 =>
            /\ style_outcome.kind = "returned"
            /\ style_outcome.text = "passed"
            /\ style_outcome.n = n_checked)

StdoutRestored ==
    /\ (style_pc = "idle" => sys_stdout = 0)
    /\ sys_stdout <= 1

\* a skip directive on one of the lines the scan reaches
HasScannedSkip(lines) ==
    \E i \in 1..Len(lines) :
        /\ i - 1 <= ScanBreak
        /\ StartsWith(lines[i], MARKER)
        /\ Contains(lines[i], SKIP)

HasIgnoreDirective(lines) ==
    \E i \in 1..Len(lines) :
        /\ StartsWith(lines[i], MARKER)
        /\ ~Contains(lines[i], SKIP)
        /\ Contains(lines[i], IGNORE)

\* C5: a file with a skip directive within the scanned lines is never handed
\* to the tool and never counted, whatever ignore directives it has.
SkipWins ==
    (cur_file # 0 /\ HasScannedSkip(SampleFiles[cur_file].lines)) =>
        /\ style_pc # "flake8"
        /\ ~cur_counted

SkipWinsWitness ==
    /\ cur_file # 0
    /\ SampleFiles[cur_file].readable
    /\ EndsWith(SampleFiles[cur_file].fname, PY)
    /\ ~DirExcluded(SampleFiles[cur_file].dir)
    /\ HasScannedSkip(SampleFiles[cur_file].lines)
    /\ HasIgnoreDirective(SampleFiles[cur_file].lines)
    /\ StartsWith(SampleFiles[cur_file].lines[1], MARKER)
    /\ Contains(SampleFiles[cur_file].lines[1], SKIP)
    /\ walked = 2
    /\ count = 1

\* C10: each _test_style leaves sys.argv and the working directory as they
\* were at its entry, so a complete test_style run leaves sys.argv as it was.
StyleFrame ==
    /\ (style_pc = "walk" /\ cur_counted =>
            /\ sys_argv = entry_argv
            /\ cwd = entry_dir)
    /\ (StyleEnded => sys_argv = run_argv)

\* ------------------------------------------------------------------------
\* _get_style_test_options applied to a file and to the same file with one
\* more directive line
\* ------------------------------------------------------------------------
ExtraLines == 3

\* files of about ScanBreak lines with at most one directive near the top
OptFiles ==
    { FileLines(n, <<>>) : n \in ScanBreak..(ScanBreak + ExtraLines) }
    \cup { FileLines(n, p :> d) : n \in ScanBreak..(ScanBreak + ExtraLines),
                                  p \in 1..2,
                                  d \in {SkipLine, IgnoreLine, BadIgnoreLine} }

PutLine(lines, pos, line) == [lines EXCEPT ![pos] = line]

ParseOptions(pos, line) ==
    /\ opt_pc = "input"
    /\ pos \in 1..Len(opt_lines)
    /\ opt_extra' = [pos |-> pos, line |-> line]
    /\ opt_result' = get_style_test_options(opt_lines)
    /\ opt_result_extra' = get_style_test_options(PutLine(opt_lines, pos, line))
    /\ opt_pc' = "done"
    /\ UNCHANGED <<opt_lines, cwd, procVars, styleVars, writeVars>>

InitOpts ==
    /\ opt_pc = "input"
    /\ opt_lines \in OptFiles
    /\ opt_extra = [pos |-> 0, line |-> <<>>]
    /\ opt_result = [skip |-> FALSE, ignores |-> <<>>]
    /\ opt_result_extra = [skip |-> FALSE, ignores |-> <<>>]
    /\ ProcInert
    /\ StyleInert
    /\ sys_argv = <<PROG>>
    /\ cwd = ROOT_DIR
    /\ WriteInert

NextOpts ==
    \E pos \in 1..(ScanBreak + ExtraLines), line \in {SkipLine, IgnoreLine} :
        ParseOptions(pos, line)

SpecOpts == InitOpts /\ [][NextOpts]_vars

\* the codes of a directive line all appear in an ignore list
CodesIn(line, list) ==
    \A i \in 1..Len(IgnoreWords(line)) :
        \E j \in 1..Len(list) : list[j] = IgnoreWords(line)[i]

\* C6: a directive is honoured if and only if it is on one of the first 20
\* lines; on line 21 or later it changes neither the skip flag nor the
\* ignore list.
DirectiveWindow ==
    opt_pc = "done" =>
        /\ (opt_extra.pos > 20 => opt_result_extra = opt_result)
        /\ (opt_extra.pos <= 20 /\ opt_extra.line = SkipLine =>
                opt_result_extra.skip)
        /\ (opt_extra.pos <= 20 /\ opt_extra.line = IgnoreLine =>
                CodesIn(IgnoreLine, opt_result_extra.ignores))

\* ------------------------------------------------------------------------
\* OutputRelativizer (FileForTesting, lines 159-175)
\* ------------------------------------------------------------------------
MaxMsgLen == 4
MaxWrites == 2

PARDIR == <<".", ".">>

CURDIR == <<".">>

Alphabet == {"/", "p", "a", "."}

Messages == UNION { [1..n -> Alphabet] : n \in 0..MaxMsgLen }

\* posixpath.normpath: number of leading slashes kept
InitialSlashes(path) ==
    IF ~StartsWith(path, <<SEP>>) THEN 0
    ELSE IF StartsWith(path, <<SEP, SEP>>) /\ ~StartsWith(path, <<SEP, SEP, SEP>>) THEN 2
    ELSE 1

RECURSIVE NormComps(_, _, _)
\* posixpath.normpath: the loop over path.split('/') building new_comps
NormComps(comps, new_comps, initial_slashes) ==
    IF comps = <<>> THEN new_comps
    ELSE LET comp == Head(comps) IN
         IF comp = <<>> \/ comp = CURDIR
         THEN NormComps(Tail(comps), new_comps, initial_slashes)
         ELSE IF \/ comp # PARDIR
                 \/ (initial_slashes = 0 /\ new_comps = <<>>)
                 \/ (new_comps # <<>> /\ new_comps[Len(new_comps)] = PARDIR)
         THEN NormComps(Tail(comps), Append(new_comps, comp), initial_slashes)
         ELSE IF new_comps # <<>>
         THEN NormComps(Tail(comps), SubSeq(new_comps, 1, Len(new_comps) - 1), initial_slashes)
         ELSE NormComps(Tail(comps), new_comps, initial_slashes)

\* [x for x in os.path.abspath(path).split(sep) if x], for an absolute path
PathList(path) == NormComps(Split(path, SEP), <<>>, InitialSlashes(path))

RECURSIVE CommonPrefixLen(_, _)
\* len(os.path.commonprefix([a, b])) on lists of components
CommonPrefixLen(a, b) ==
    IF a = <<>> \/ b = <<>> \/ Head(a) # Head(b) THEN 0
    ELSE 1 + CommonPrefixLen(Tail(a), Tail(b))

\* os.path.relpath(path, start) for absolute path and start
RelPath(path, start) ==
    LET start_list == PathList(start)
        path_list == PathList(path)
        i == CommonPrefixLen(start_list, path_list)
        rel_list == [k \in 1..(Len(start_list) - i) |-> PARDIR]
                    \o SubSeq(path_list, i + 1, Len(path_list))
    IN  IF rel_list = <<>> THEN CURDIR ELSE Join(rel_list, <<SEP>>)

WriteTextUnchanged(msg) == msg

\* lines 166-167: the text write() hands to the wrapped sink
WriteText(msg) == IF StartsWith(msg, ROOT_DIR) THEN RelPath(msg, ROOT_DIR) ELSE msg

\* FileForTesting.write(msg)
ProxyWrite(msg) ==
    /\ proxy_writes < MaxWrites
    /\ proxy_writes' = proxy_writes + 1
    /\ w_msg' = msg
    /\ sink_last' = WriteText(msg)
    /\ sink_writes' = sink_writes + 1
    /\ sink_flushes' = sink_flushes + 1
    /\ UNCHANGED <<cwd, procVars, styleVars, optsVars>>

InitWrite ==
    /\ WriteInert
    /\ ProcInert
    /\ StyleInert
    /\ sys_argv = <<PROG>>
    /\ cwd = ROOT_DIR
    /\ OptsInert

NextWrite == \E msg \in Messages : ProxyWrite(msg)

SpecWrite == InitWrite /\ [][NextWrite]_vars

\* the message without the root prefix and the separator after it
StripRoot(msg) ==
    LET rest == SubSeq(msg, Len(ROOT_DIR) + 1, Len(msg))
    IN  IF rest # <<>> /\ Head(rest) = SEP THEN Tail(rest) ELSE rest

\* C9 as stated: one message is forwarded per call; a message that starts
\* with the root string is forwarded with the root prefix stripped, any other
\* message unchanged.
WriteStripsPrefix ==
    proxy_writes > 0 =>
        /\ sink_writes = proxy_writes
        /\ (StartsWith(w_msg, ROOT_DIR) => sink_last = StripRoot(w_msg))
        /\ (~StartsWith(w_msg, ROOT_DIR) => sink_last = w_msg)

\* the root, a separator and a relative path without empty, '.' or '..'
\* components
RootPlusNormalPath(msg) ==
    /\ StartsWith(msg, ROOT_DIR \o <<SEP>>)
    /\ \A i \in 1..Len(Split(StripRoot(msg), SEP)) :
           Split(StripRoot(msg), SEP)[i] \notin {<<>>, CURDIR, PARDIR}

\* a normalised relative path: '.', or components none of which is empty or
\* '.', with '..' only in front
NormalRelative(text) ==
    \/ text = CURDIR
    \/ LET comps == Split(text, SEP) IN
       \A i \in 1..Len(comps) :
           /\ comps[i] \notin {<<>>, CURDIR}
           /\ (comps[i] = PARDIR /\ i > 1 => comps[i - 1] = PARDIR)

\* C9 as amended: one message is forwarded per call; a message that does not
\* start with the root string is forwarded unchanged; a message made of the
\* root, a separator and a relative path without empty, '.' or '..'
\* components is forwarded with root and separator stripped; any other
\* message that starts with the root string is forwarded as a normalised
\* path relative to the root ('.', or leading '..' components).
WriteRelativizes ==
    proxy_writes > 0 =>
        /\ sink_writes = proxy_writes
        /\ sink_flushes = proxy_writes
        /\ (~StartsWith(w_msg, ROOT_DIR) => sink_last = w_msg)
        /\ (RootPlusNormalPath(w_msg) => sink_last = StripRoot(w_msg))
        /\ (StartsWith(w_msg, ROOT_DIR) => NormalRelative(sink_last))

WriteRelativizesWitness ==
    /\ proxy_writes = MaxWrites
    /\ w_msg = ROOT_DIR \o <<SEP, "a">>
    /\ sink_last = <<"a">>

\* ------------------------------------------------------------------------
\* Specification of one process using the library
\* ------------------------------------------------------------------------
Init ==
    /\ proc_pc = "running"
    /\ sys_modules = {PYTEST_RUNNER}
    /\ cwd \in Dirs
    /\ the_test_dir = None
    /\ dir_state \in {"absent", "nonempty"}
    /\ atexit_hooks = 0
    /\ hooks_run = 0
    /\ created = 0
    /\ removals = 0
    /\ get_log = <<>>
    /\ runner_call = RunnerOriginal
    /\ runner_call_orig = Unset
    /\ loads = 0
    /\ hook_calls = -1
    /\ unit_pc = "idle"
    /\ unit_runs = 0
    /\ orig_dir = None
    /\ entry_cwd = None
    /\ runner_code = NoCode
    /\ unit_result = [kind |-> "none"]
    /\ StyleInert
    /\ sys_argv = <<PROG>>
    /\ OptsInert
    /\ WriteInert

Next ==
    \/ ImportTesting
    \/ InvokeHook
    \/ GetTestDir
    \/ WriteTestFile
    \/ TestUnitEnter
    \/ \E code \in ExitCodes : RunnerReturns(code)
    \/ RunnerRaises
    \/ \E d \in Dirs : Chdir(d)
    \/ ProcessExit
    \/ \E rm_ok \in BOOLEAN : RunExitHook(rm_ok)
    \/ ExitDone

Spec == Init /\ [][Next]_vars

\* ------------------------------------------------------------------------
\* Properties of the process specification
\* ------------------------------------------------------------------------

\* C2: every get_test_dir() call that returns yields the same path, the
\* directory exists when it returns, and on the first returning call the
\* directory is empty.
GetTestDirContract ==
    \A i \in 1..Len(get_log) :
        /\ get_log[i].path = get_log[1].path
        /\ get_log[i].dir # "absent"
        /\ (i = 1 => get_log[i].dir = "empty")

\* C7: the exit hook is registered exactly once if some call has created the
\* directory and never otherwise.
CleanupHookOnce ==
    atexit_hooks = (IF created > 0 THEN 1 ELSE 0)

\* C4: test_unit leaves the working directory as it was at entry whether the
\* runner returns or raises, returns the runner's exit code when the runner
\* returns, and the working directory is the root while the runner executes.
TestUnitFrame ==
    /\ [](unit_pc = "runner" => cwd = ROOT_DIR)
    /\ [][(unit_pc = "runner" /\ unit_pc' = "idle") =>
            /\ cwd' = entry_cwd
            /\ unit_result'.kind \in {"returned", "raised"}
            /\ (unit_result'.kind = "returned" =>
                    unit_result'.code = runner_code')]_vars

TestUnitFrameWitness ==
    /\ unit_pc = "idle"
    /\ unit_result.kind = "returned"
    /\ unit_result.code = 2
    /\ entry_cwd = HOME_DIR
    /\ cwd = HOME_DIR

\* C8: after any number of executions of the module body the saved original
\* is the runner's own function, the hook is the wrapper, and one hook
\* invocation calls the runner's own function exactly once.
PatchedExactlyOnce ==
    /\ (loads > 0 => /\ runner_call = pytest_runtest_call
                     /\ runner_call_orig = RunnerOriginal)
    /\ (loads = 0 => runner_call = RunnerOriginal)
    /\ (hook_calls # -1 => hook_calls = 1)

PatchedExactlyOnceWitness ==
    /\ loads >= 2
    /\ unit_runs >= 1
    /\ hook_calls = 1

====
